---- MODULE Spec2Model ----
(***************************************************************************)
(* Model of the two scripts of texas-population-peaks:                     *)
(*   texas_peaks.py      ("peaks",     the enhanced / artistic variant)    *)
(*   visualize_texas.py  ("visualize", the basic variant)                  *)
(* Both share one cache directory and one shapefile path.                  *)
(*                                                                         *)
(* Numbers are IEEE doubles in the code.  They are modelled as exact       *)
(* rationals extended with nan, inf and -inf, so that division by zero,    *)
(* fillna and replace([inf, -inf]) act as they do in numpy / pandas;       *)
(* rounding of the last binary digit is not modelled.  Seeded random       *)
(* values and sin/cos products are the code's values rounded to 1/100.     *)
(***************************************************************************)
EXTENDS Integers, Sequences, FiniteSets, TLC

VARIABLES
    script,          \* which script the process runs: "peaks" | "visualize"
    pc,              \* position of the process in the script
    printed,         \* diagnostics printed by the current run (stdout/stderr)
    dir_exists,      \* os.path.exists(extract_to_folder)
    files,           \* members present inside extract_to_folder
    served,          \* the archive behind shapefile_url: [members, table]
    response,        \* the archive of the HTTP response being extracted
    requested,       \* the current run has issued requests.get
    wrote,           \* the current run has written its output HTML file
    loaded,          \* the table as gpd.read_file returned it
    gdf,             \* the working GeoDataFrame
    population_col,  \* pop_col (peaks) / population_col (visualize)
    area_col,        \* area_col
    height_col,      \* value_col (peaks) / height_col (visualize)
    html,            \* the output HTML file of each script
    n_colors,        \* argument of generate_colors
    colors           \* result of generate_colors

vars == <<script, pc, printed, dir_exists, files, served, response,
          requested, wrote, loaded, gdf, population_col, area_col,
          height_col, html, n_colors, colors>>

diskVars == <<dir_exists, files, served, html>>
fetchVars == <<response, requested, wrote>>
frameVars == <<loaded, gdf, population_col, area_col, height_col>>
colorVars == <<n_colors, colors>>

Scripts == {"peaks", "visualize"}

(***************************************************************************)
(* Bounds of the model.                                                    *)
(***************************************************************************)
MaxRecords == 2
MaxColors == 60

(***************************************************************************)
(* Doubles: [k, n, d, s].  k = "fin" is the rational n/d (d > 0, lowest    *)
(* terms); "nan", "inf", "ninf" are the IEEE specials.  k = "str" is a     *)
(* text cell of an object column, s its characters.  A null cell is nan.   *)
(***************************************************************************)
Abs(x) == IF x < 0 THEN -x ELSE x

RECURSIVE GCD(_, _)
GCD(a, b) == IF b = 0 THEN a ELSE GCD(b, a % b)

Fin(n, d) ==
    LET g == GCD(Abs(n), Abs(d))
        sg == IF d < 0 THEN -1 ELSE 1
    IN  [k |-> "fin", n |-> (sg * n) \div g, d |-> (sg * d) \div g, s |-> <<>>]

Num(i) == Fin(i, 1)
NaN == [k |-> "nan", n |-> 0, d |-> 1, s |-> <<>>]
PosInf == [k |-> "inf", n |-> 0, d |-> 1, s |-> <<>>]
NegInf == [k |-> "ninf", n |-> 0, d |-> 1, s |-> <<>>]
Str(chars) == [k |-> "str", n |-> 0, d |-> 1, s |-> chars]

IsFin(x) == x.k = "fin"
IsNaN(x) == x.k = "nan"

Sgn(x) ==
    CASE x.k = "inf" -> 1
      [] x.k = "ninf" -> -1
      [] OTHER -> IF x.n > 0 THEN 1 ELSE IF x.n < 0 THEN -1 ELSE 0

Signed(sg) == IF sg > 0 THEN PosInf ELSE IF sg < 0 THEN NegInf ELSE NaN

Neg(x) ==
    CASE x.k = "fin" -> Fin(-x.n, x.d)
      [] x.k = "inf" -> NegInf
      [] x.k = "ninf" -> PosInf
      [] OTHER -> NaN

Add(x, y) ==
    IF IsNaN(x) \/ IsNaN(y) THEN NaN
    ELSE IF IsFin(x) /\ IsFin(y) THEN Fin(x.n * y.d + y.n * x.d, x.d * y.d)
    ELSE IF IsFin(x) THEN y
    ELSE IF IsFin(y) THEN x
    ELSE IF x.k = y.k THEN x ELSE NaN

Sub(x, y) == Add(x, Neg(y))

Mul(x, y) ==
    IF IsNaN(x) \/ IsNaN(y) THEN NaN
    ELSE IF IsFin(x) /\ IsFin(y) THEN Fin(x.n * y.n, x.d * y.d)
    ELSE Signed(Sgn(x) * Sgn(y))

Div(x, y) ==
    IF IsNaN(x) \/ IsNaN(y) THEN NaN
    ELSE IF IsFin(y)
         THEN IF y.n = 0 THEN Signed(Sgn(x))
              ELSE IF IsFin(x) THEN Fin(x.n * y.d, x.d * y.n)
              ELSE Signed(Sgn(x) * Sgn(y))
         ELSE IF IsFin(x) THEN Num(0) ELSE NaN

\* x < y for doubles; any comparison with nan is false
Lt(x, y) ==
    /\ ~IsNaN(x)
    /\ ~IsNaN(y)
    /\ CASE IsFin(x) /\ IsFin(y) -> x.n * y.d < y.n * x.d
         [] x.k = "ninf" -> y.k # "ninf"
         [] y.k = "inf" -> x.k # "inf"
         [] OTHER -> FALSE

Leq(x, y) == ~IsNaN(x) /\ ~IsNaN(y) /\ ~Lt(y, x)

(***************************************************************************)
(* pandas Series.  A column is [type, cells]: type "N" is a numeric dtype  *)
(* (int64 / float64), type "C" is object dtype (text or null cells).       *)
(***************************************************************************)
Column(type, cells) == [type |-> type, cells |-> cells]

\* Series.max() / Series.min() / Series.sum(): nan cells are skipped
SeriesMax(cells) ==
    LET S == {i \in DOMAIN cells : ~IsNaN(cells[i])}
    IN  IF S = {} THEN NaN
        ELSE cells[CHOOSE i \in S : \A j \in S : ~Lt(cells[i], cells[j])]

SeriesMin(cells) ==
    LET S == {i \in DOMAIN cells : ~IsNaN(cells[i])}
    IN  IF S = {} THEN NaN
        ELSE cells[CHOOSE i \in S : \A j \in S : ~Lt(cells[j], cells[i])]

RECURSIVE SumUpTo(_, _)
SumUpTo(cells, i) ==
    IF i = 0 THEN Num(0)
    ELSE IF IsNaN(cells[i]) THEN SumUpTo(cells, i - 1)
    ELSE Add(SumUpTo(cells, i - 1), cells[i])

SeriesSum(cells) == SumUpTo(cells, Len(cells))

\* Series.fillna(0)
FillNa0(x) == IF IsNaN(x) THEN Num(0) ELSE x

\* Series.replace([np.inf, -np.inf], 0)
ReplaceInf_Dropped(x) == x
ReplaceInf(x) == IF x.k \in {"inf", "ninf"} THEN Num(0) ELSE x

\* pd.to_numeric on one cell: decimal text is parsed, other text does not parse
DigitChars == <<"0", "1", "2", "3", "4", "5", "6", "7", "8", "9">>
DigitVal(c) == (CHOOSE i \in 1..Len(DigitChars) : DigitChars[i] = c) - 1
IsDigit(c) == \E i \in 1..Len(DigitChars) : DigitChars[i] = c
IsNumericText(chars) ==
    Len(chars) > 0 /\ \A i \in 1..Len(chars) : IsDigit(chars[i])

RECURSIVE ParseInt(_)
ParseInt(chars) ==
    IF Len(chars) = 0 THEN 0
    ELSE ParseInt(SubSeq(chars, 1, Len(chars) - 1)) * 10
         + DigitVal(chars[Len(chars)])

Parses(x) == x.k # "str" \/ IsNumericText(x.s)

\* pd.to_numeric on one cell; text that does not parse is nan under
\* errors='coerce' and raises ValueError under errors='raise' (ToNumericRaises)
ToNumeric(x) ==
    IF x.k = "str"
    THEN IF IsNumericText(x.s) THEN Num(ParseInt(x.s)) ELSE NaN
    ELSE x

\* pd.to_numeric on a Series: the result has a numeric dtype
ToNumericSeries(column) ==
    Column("N", [i \in DOMAIN column.cells |-> ToNumeric(column.cells[i])])

\* errors='raise' (the default): ValueError unless every cell parses
ToNumericRaises(column) ==
    \E i \in DOMAIN column.cells : ~Parses(column.cells[i])

IsNumericDtype(column) == column.type = "N"

(***************************************************************************)
(* The GeoDataFrame: [n, centroid, col].  n records; centroid[i] indexes   *)
(* the record's centroid in Centroids; col maps column names to columns.   *)
(***************************************************************************)
Columns(g) == DOMAIN g.col

WithColumn(g, name, column) == [g EXCEPT !.col = (name :> column) @@ g.col]

Broadcast(g, x) == Column("N", [i \in 1..g.n |-> x])

NoFrame == [n |-> 0, centroid |-> <<>>, col |-> <<>>]

NoArchive == [members |-> <<>>, table |-> NoFrame]

(***************************************************************************)
(* Literals of the scripts.                                                *)
(***************************************************************************)
Million == 1000000
FlatZ == 50
ZScale == 100

None == "None"

\* potential_pop_cols of each script, in the order the script tries them
PotentialPopCols(s) ==
    IF s = "peaks" THEN <<"POP100", "POP20", "POP">>
    ELSE <<"POP", "POP100", "POP20">>

PotentialAreaCols == <<"ALAND">>

\* np.random.seed(42); np.random.rand(n): the first values of MT19937
\* seeded with 42 (0.3745..., 0.9507..., 0.7319..., 0.5986..., 0.1560...),
\* rounded to units of 1/100
RandSeed42 == <<37, 95, 73, 60, 16>>

\* np.random.seed(42); np.random.beta(2, 5, size=n): the first values of the
\* legacy sampler (0.3536..., 0.2485..., 0.4159..., 0.1599..., 0.5502...),
\* rounded to units of 1/100
BetaSeed42 == <<35, 25, 42, 16, 55>>

\* Centroids of sample block groups (lon, lat in 1/100 degree) with
\* sin(lon*3)*cos(lat*3) and sin(lat*5)*cos(lon*2) in units of 1/100
Centroids ==
    << [lon |-> -9774,  lat |-> 3027, sc3 |-> -83, sc52 |-> 40],
       [lon |-> -9537,  lat |-> 2976, sc3 |-> 6,   sc52 |-> 57],
       [lon |-> -9680,  lat |-> 3278, sc3 |-> 57,  sc52 |-> 20],
       [lon |-> -10649, lat |-> 3176, sc3 |-> 42,  sc52 |-> 79],
       [lon |-> -10186, lat |-> 3358, sc3 |-> 73,  sc52 |-> 87] >>

(***************************************************************************)
(* Metric Deriver: column selection.                                       *)
(***************************************************************************)
FirstPresent(cands, columns) ==
    LET S == {i \in 1..Len(cands) : cands[i] \in columns}
    IN  IF S = {} THEN None
        ELSE cands[CHOOSE i \in S : \A j \in S : i <= j]

SelectPopCol(s, g) == FirstPresent(PotentialPopCols(s), Columns(g))

\* visualize_texas.py accepts an area column only if it is numeric with a
\* positive sum
AreaIsValid(g, c) ==
    /\ c \in Columns(g)
    /\ IsNumericDtype(g.col[c])
    /\ Lt(Num(0), SeriesSum(g.col[c].cells))

SelectAreaCol(s, g) ==
    IF s = "peaks" THEN FirstPresent(PotentialAreaCols, Columns(g))
    ELSE LET S == {i \in 1..Len(PotentialAreaCols) :
                       AreaIsValid(g, PotentialAreaCols[i])}
         IN  IF S = {} THEN None
             ELSE PotentialAreaCols[CHOOSE i \in S : \A j \in S : i <= j]

(***************************************************************************)
(* Metric Deriver: the derived metric.  Each Derive* returns              *)
(* [crash, gdf, height_col, warn]; crash is an exception nothing catches.  *)
(***************************************************************************)
Derived(g, col, warn) ==
    [crash |-> FALSE, gdf |-> g, height_col |-> col, warn |-> warn]

Raised(g) == [crash |-> TRUE, gdf |-> g, height_col |-> None, warn |-> {}]

\* population / (area / 1_000_000), then fillna(0), then replace(inf, 0)
Density(popCells, areaCells) ==
    [i \in DOMAIN popCells |->
        ReplaceInf(FillNa0(Div(ToNumeric(popCells[i]),
                               Div(ToNumeric(areaCells[i]), Num(Million)))))]

DerivePeaks(g, pop, area) ==
    IF pop # None /\ area # None
    THEN IF ToNumericRaises(g.col[pop]) \/ ToNumericRaises(g.col[area])
         THEN Raised(g)
         ELSE Derived(WithColumn(g, "density",
                          Column("N", Density(g.col[pop].cells,
                                              g.col[area].cells))),
                      "density", {})
    ELSE IF pop # None
         THEN IF ToNumericRaises(g.col[pop])
              THEN Raised(g)
              ELSE Derived(WithColumn(g, "population",
                               ToNumericSeries(g.col[pop])),
                           "population", {})
         ELSE Derived(WithColumn(g, "population", Broadcast(g, Num(0))),
                      "population", {})

CoerceFill(x) == FillNa0(ToNumeric(x))

CoerceFillSeries(column) ==
    Column("N", [i \in DOMAIN column.cells |-> CoerceFill(column.cells[i])])

SimulatedHeight(g) ==
    Column("N", [i \in 1..g.n |-> Mul(Fin(RandSeed42[i], 100), Num(1000))])

DeriveVisualize(g, pop, area) ==
    IF pop # None /\ area # None
    THEN \* an object column divided by a float column raises TypeError
         IF ~IsNumericDtype(g.col[pop])
         THEN Raised(g)
         ELSE LET g1 == WithColumn(g, area, ToNumericSeries(g.col[area]))
              IN  Derived(WithColumn(g1, "density",
                              Column("N", Density(g1.col[pop].cells,
                                                  g1.col[area].cells))),
                          "density", {})
    ELSE IF pop # None
         THEN Derived(WithColumn(g, pop, CoerceFillSeries(g.col[pop])),
                      pop, {"WARNING: Area column not found or invalid"})
         ELSE Derived(WithColumn(g, "simulated_height", SimulatedHeight(g)),
                      "simulated_height",
                      {"WARNING: Population column not found"})

Derive(s, g, pop, area) ==
    IF s = "peaks" THEN DerivePeaks(g, pop, area)
    ELSE DeriveVisualize(g, pop, area)

(***************************************************************************)
(* Height Normalizer.                                                      *)
(***************************************************************************)
Wave(g) ==
    [i \in 1..g.n |->
        Add(Mul(Fin(Centroids[g.centroid[i]].sc3, 100), Fin(15, 100)),
            Mul(Fin(Centroids[g.centroid[i]].sc52, 100), Fin(1, 10)))]

Terrain(g) == [i \in 1..g.n |-> Mul(Fin(BetaSeed42[i], 100), Fin(2, 10))]

\* texas_peaks.py: metric / max * 0.85 + wave + terrain, then min-max
MinMax(cells) ==
    LET lo == SeriesMin(cells)
        hi == SeriesMax(cells)
    IN  [i \in DOMAIN cells |-> Div(Sub(cells[i], lo), Sub(hi, lo))]

HeightPeaks(g, value_col) ==
    LET v == g.col[value_col].cells
        max_val == SeriesMax(v)
        wave == Wave(g)
        terrain == Terrain(g)
        raw == [i \in 1..g.n |->
                   Add(Add(Mul(Div(v[i], max_val), Fin(85, 100)), wave[i]),
                       terrain[i])]
        g1 == WithColumn(WithColumn(g, "wave", Column("N", wave)),
                         "terrain", Column("N", terrain))
    IN  WithColumn(g1, "height", Column("N", MinMax(raw)))

\* z = x ** 1.5 * 100 is irrational for most rational x.  The column
\* z_height holds z * z = x^3 * 100^2 instead; z >= 0, so z is in [0, 100]
\* exactly when z * z is in [0, 100^2], and z orders as z * z does.
Pow15Scaled(x) ==
    IF Lt(x, Num(0)) THEN NaN
    ELSE Mul(Mul(Mul(x, x), x), Num(ZScale * ZScale))

ZHeight_Inverted(g, hcol) ==
    LET v == g.col[hcol].cells
        min_h == SeriesMin(v)
        max_h == SeriesMax(v)
    IN  IF Lt(min_h, max_h)
        THEN WithColumn(g, "z_height", Column("N",
                 [i \in 1..g.n |->
                     Pow15Scaled(Div(Sub(max_h, v[i]), Sub(max_h, min_h)))]))
        ELSE WithColumn(g, "z_height", Broadcast(g, Num(FlatZ * FlatZ)))

ZHeight(g, hcol) ==
    LET v == g.col[hcol].cells
        min_h == SeriesMin(v)
        max_h == SeriesMax(v)
    IN  IF Lt(min_h, max_h)
        THEN WithColumn(g, "z_height", Column("N",
                 [i \in 1..g.n |->
                     Pow15Scaled(Div(Sub(v[i], min_h), Sub(max_h, min_h)))]))
        ELSE WithColumn(g, "z_height", Broadcast(g, Num(FlatZ * FlatZ)))

Normalize(s, g, hcol) ==
    IF s = "peaks" THEN HeightPeaks(g, hcol) ELSE ZHeight(g, hcol)

\* the column the renderer plots as z
HeightName(s) == IF s = "peaks" THEN "height" ELSE "z_height"

(***************************************************************************)
(* Steps of the data pipeline (sections 3 and 4 of both scripts).          *)
(***************************************************************************)
SelectColumns ==
    /\ pc = "select"
    /\ population_col' = SelectPopCol(script, gdf)
    /\ area_col' = SelectAreaCol(script, gdf)
    /\ pc' = "derive"
    /\ UNCHANGED <<script, printed, diskVars, fetchVars, loaded, gdf,
                   height_col, colorVars>>

DeriveMetric ==
    /\ pc = "derive"
    /\ LET r == Derive(script, gdf, population_col, area_col)
       IN  /\ gdf' = r.gdf
           /\ height_col' = r.height_col
           /\ pc' = IF r.crash THEN "crashed" ELSE "normalize"
           /\ printed' = IF r.crash THEN printed \cup {"Traceback"}
                         ELSE printed \cup r.warn
    /\ UNCHANGED <<script, diskVars, fetchVars, loaded, population_col,
                   area_col, colorVars>>

NormalizeHeight ==
    /\ pc = "normalize"
    /\ gdf' = Normalize(script, gdf, height_col)
    /\ pc' = "render"
    /\ UNCHANGED <<script, printed, diskVars, fetchVars, loaded,
                   population_col, area_col, height_col, colorVars>>

(***************************************************************************)
(* Tables the loader can return.                                           *)
(***************************************************************************)
CandidateCols == {"POP", "POP100", "POP20", "ALAND"}

PopCellsN == {Num(0), Num(100), NaN}
PopCellsC == {Str(<<"7">>), Str(<<"x">>)}
AreaCellsN == {Num(0), Num(1000000), Num(2000000), NaN}
AreaCellsC == {Str(<<"2">>), Str(<<"x">>)}

PopColumns(n) ==
    {Column("N", c) : c \in [1..n -> PopCellsN]}
        \cup {Column("C", c) : c \in [1..n -> PopCellsC]}

AreaColumns(n) ==
    {Column("N", c) : c \in [1..n -> AreaCellsN]}
        \cup {Column("C", c) : c \in [1..n -> AreaCellsC]}

\* every population column present carries popColumn, ALAND areaColumn;
\* record i lies at Centroids[i]
Table(n, names, popColumn, areaColumn) ==
    [n |-> n,
     centroid |-> [i \in 1..n |-> i],
     col |-> [c \in names |-> IF c = "ALAND" THEN areaColumn ELSE popColumn]]

BoundedTables ==
    UNION {{Table(n, names, p, a) :
                names \in SUBSET CandidateCols,
                p \in PopColumns(n), a \in AreaColumns(n)} : n \in 1..MaxRecords}

\* three regions, populations [100, 200, 0], areas [1e6, 2e6, 5e5] m^2
ScenarioTable ==
    Table(3, {"POP100", "ALAND"},
          Column("N", <<Num(100), Num(200), Num(0)>>),
          Column("N", <<Num(1000000), Num(2000000), Num(500000)>>))

MetricTables == BoundedTables \cup {ScenarioTable}

InitMetric ==
    /\ script \in Scripts
    /\ loaded \in MetricTables
    /\ gdf = loaded
    /\ pc = "select"
    /\ printed = {}
    /\ dir_exists = TRUE
    /\ files = {}
    /\ served = NoArchive
    /\ response = <<>>
    /\ requested = FALSE
    /\ wrote = FALSE
    /\ population_col = None
    /\ area_col = None
    /\ height_col = None
    /\ html = [s \in Scripts |-> [stage |-> "absent", of |-> None]]
    /\ n_colors = 0
    /\ colors = <<>>

NextMetric == SelectColumns \/ DeriveMetric \/ NormalizeHeight

SpecMetric == InitMetric /\ [][NextMetric]_vars

(***************************************************************************)
(* Palette generator of texas_peaks.py.  A colour is the triple of         *)
(* integers the f-string prints inside 'rgb(r,g,b)'.                       *)
(***************************************************************************)
NColors == 150

One == Num(1)

\* floor of a non-negative rational
Floor(x) == x.n \div x.d

\* colorsys.hsv_to_rgb(h, s, v)
HsvToRgb(h, s, v) ==
    IF s = Num(0) THEN <<v, v, v>>
    ELSE LET i == Floor(Mul(h, Num(6)))
             f == Sub(Mul(h, Num(6)), Num(i))
             p == Mul(v, Sub(One, s))
             q == Mul(v, Sub(One, Mul(s, f)))
             t == Mul(v, Sub(One, Mul(s, Sub(One, f))))
             m == i % 6
         IN  CASE m = 0 -> <<v, t, p>>
               [] m = 1 -> <<q, v, p>>
               [] m = 2 -> <<p, v, t>>
               [] m = 3 -> <<p, q, v>>
               [] m = 4 -> <<t, p, v>>
               [] OTHER -> <<v, p, q>>

\* floor(c * m) for a rational c in [0, 1], by binary long multiplication so
\* that no intermediate product leaves the 32-bit integers of TLC
RECURSIVE MulDiv(_, _, _)
MulDiv(n, m, d) ==
    IF m = 0 THEN [q |-> 0, r |-> 0]
    ELSE LET h == MulDiv(n, m \div 2, d)
             r == 2 * h.r + (IF m % 2 = 1 THEN n ELSE 0)
         IN  [q |-> 2 * h.q + (r \div d), r |-> r % d]

\* int(c * 255)
Channel_Scaled256(c) == MulDiv(c.n, 256, c.d).q
Channel(c) == MulDiv(c.n, 255, c.d).q

\* the colour of stop i (0-based) of n
ColorStop(i, n) ==
    LET cool == 2 * i < n
        t == IF cool THEN Fin(2 * i, n) ELSE Fin(2 * i - n, n)
        hue == IF cool THEN Sub(Fin(7, 10), Mul(t, Fin(15, 100)))
               ELSE Sub(Fin(55, 100), Mul(t, Fin(35, 100)))
        sat == IF cool THEN Add(Fin(7, 10), Mul(t, Fin(3, 10))) ELSE One
        val == IF cool THEN Add(Fin(5, 10), Mul(t, Fin(5, 10))) ELSE One
        rgb == HsvToRgb(hue, sat, val)
    IN  <<Channel(rgb[1]), Channel(rgb[2]), Channel(rgb[3])>>

generate_colors(n) == [j \in 1..n |-> ColorStop(j - 1, n)]

CallGenerateColors ==
    /\ pc = "colors"
    /\ colors' = generate_colors(n_colors)
    /\ pc' = "colored"
    /\ UNCHANGED <<script, printed, diskVars, fetchVars, frameVars, n_colors>>

InitColors ==
    /\ script = "peaks"
    /\ pc = "colors"
    /\ n_colors \in (1..MaxColors) \cup {NColors}
    /\ colors = <<>>
    /\ printed = {}
    /\ dir_exists = TRUE
    /\ files = {}
    /\ served = NoArchive
    /\ response = <<>>
    /\ requested = FALSE
    /\ wrote = FALSE
    /\ loaded = NoFrame
    /\ gdf = NoFrame
    /\ population_col = None
    /\ area_col = None
    /\ height_col = None
    /\ html = [s \in Scripts |-> [stage |-> "absent", of |-> None]]

NextColors == CallGenerateColors

SpecColors == InitColors /\ [][NextColors]_vars

(***************************************************************************)
(* Acquirer and Loader.  The archive behind the fixed URL holds the        *)
(* members of the shapefile and one attribute table.                       *)
(***************************************************************************)
Shp == "tl_2024_48_bg.shp"
Shx == "tl_2024_48_bg.shx"
Dbf == "tl_2024_48_bg.dbf"
Prj == "tl_2024_48_bg.prj"

MemberOrders ==
    { <<Dbf, Prj, Shp, Shx>>, <<Shp, Shx, Dbf, Prj>>, <<Shx, Dbf, Prj, Shp>> }

\* the TIGER file itself carries no population column
TigerLikeTable ==
    Table(2, {"ALAND"}, Column("N", <<NaN, NaN>>),
          Column("N", <<Num(1000000), Num(0)>>))

TextPopTable ==
    Table(2, {"POP", "POP100"}, Column("C", <<Str(<<"7">>), Str(<<"x">>)>>),
          Column("N", <<NaN, NaN>>))

SampleTables == {ScenarioTable, TigerLikeTable, TextPopTable}

Archives ==
    {[members |-> m, table |-> t] : m \in MemberOrders, t \in SampleTables}

Range(seq) == {seq[i] : i \in DOMAIN seq}

Terminated == {"idle", "done", "failed", "crashed"}

\* what each script prints when a stage fails; texas_peaks.py catches
\* nothing, so the interpreter prints the traceback
Diagnostic(s, msg) == IF s = "peaks" THEN "Traceback" ELSE msg

Diagnostics ==
    {"Traceback", "Error downloading file",
     "Error: Downloaded file is not a valid ZIP archive.",
     "An unexpected error occurred during download/extraction",
     "Error loading shapefile"}

\* the process is started: every variable of the script is fresh
StartRun ==
    /\ pc \in Terminated
    /\ \E s \in Scripts : script' = s
    /\ pc' = "acquire"
    /\ printed' = {}
    /\ response' = <<>>
    /\ requested' = FALSE
    /\ wrote' = FALSE
    /\ loaded' = NoFrame
    /\ gdf' = NoFrame
    /\ population_col' = None
    /\ area_col' = None
    /\ height_col' = None
    /\ n_colors' = 0
    /\ colors' = <<>>
    /\ UNCHANGED diskVars

\* os.path.exists(shapefile_path): the download block is skipped
AcquireCached_Redownload ==
    /\ pc = "acquire"
    /\ Shp \in files
    /\ requested' = TRUE
    /\ response' = served.members
    /\ pc' = "extract"
    /\ UNCHANGED <<script, printed, diskVars, wrote, frameVars, colorVars>>

AcquireCached ==
    /\ pc = "acquire"
    /\ Shp \in files
    /\ pc' = "load"
    /\ printed' = IF script = "visualize"
                  THEN printed \cup {"Skipping download."} ELSE printed
    /\ UNCHANGED <<script, diskVars, fetchVars, frameVars, colorVars>>

Fail(msg) ==
    /\ pc' = "failed"
    /\ printed' = printed \cup {Diagnostic(script, msg)}

\* makedirs, then requests.get / raise_for_status raises
DownloadFails ==
    /\ pc = "acquire"
    /\ Shp \notin files
    /\ dir_exists' = TRUE
    /\ requested' = TRUE
    /\ Fail("Error downloading file")
    /\ UNCHANGED <<script, files, served, html, response, wrote, frameVars,
                   colorVars>>

\* the response is not an archive: zipfile.ZipFile raises BadZipFile
DownloadBadZip ==
    /\ pc = "acquire"
    /\ Shp \notin files
    /\ dir_exists' = TRUE
    /\ requested' = TRUE
    /\ Fail("Error: Downloaded file is not a valid ZIP archive.")
    /\ UNCHANGED <<script, files, served, html, response, wrote, frameVars,
                   colorVars>>

\* the response is held in memory; extractall starts
DownloadOk ==
    /\ pc = "acquire"
    /\ Shp \notin files
    /\ dir_exists' = TRUE
    /\ requested' = TRUE
    /\ response' = served.members
    /\ pc' = "extract"
    /\ UNCHANGED <<script, printed, files, served, html, wrote, frameVars,
                   colorVars>>

\* extractall writes the members one after the other
ExtractMember ==
    /\ pc = "extract"
    /\ response # <<>>
    /\ files' = files \cup {Head(response)}
    /\ response' = Tail(response)
    /\ UNCHANGED <<script, pc, printed, dir_exists, served, html, requested,
                   wrote, frameVars, colorVars>>

\* extractall raises part way (a corrupt member, a full disk, an abort)
ExtractFails ==
    /\ pc = "extract"
    /\ response # <<>>
    /\ \E msg \in {"Error: Downloaded file is not a valid ZIP archive.",
                   "An unexpected error occurred during download/extraction"} :
           Fail(msg)
    /\ UNCHANGED <<script, diskVars, fetchVars, frameVars, colorVars>>

ExtractDone ==
    /\ pc = "extract"
    /\ response = <<>>
    /\ pc' = "load"
    /\ UNCHANGED <<script, printed, diskVars, fetchVars, frameVars, colorVars>>

\* gpd.read_file needs the .shp and its .shx index; the attributes come
\* from the .dbf, and a shapefile without it loads with no attribute column
Loadable == {Shp, Shx} \subseteq files

ReadFile ==
    IF Dbf \in files THEN served.table
    ELSE [served.table EXCEPT !.col = [c \in {} |-> Column("N", <<>>)]]

LoadOk ==
    /\ pc = "load"
    /\ Loadable
    /\ loaded' = ReadFile
    /\ gdf' = ReadFile
    /\ pc' = "select"
    /\ UNCHANGED <<script, printed, diskVars, fetchVars, population_col,
                   area_col, height_col, colorVars>>

LoadFails_NoExit ==
    /\ pc = "load"
    /\ ~Loadable
    /\ printed' = printed \cup {Diagnostic(script, "Error loading shapefile")}
    /\ pc' = "select"
    /\ UNCHANGED <<script, diskVars, fetchVars, frameVars, colorVars>>

LoadFails ==
    /\ pc = "load"
    /\ ~Loadable
    /\ Fail("Error loading shapefile")
    /\ UNCHANGED <<script, diskVars, fetchVars, frameVars, colorVars>>

(***************************************************************************)
(* Renderer.                                                               *)
(***************************************************************************)
\* fig.write_html(output_file); texas_peaks.py first builds its colour scale
Render ==
    /\ pc = "render"
    /\ html' = [html EXCEPT ![script] = [stage |-> "plot", of |-> height_col]]
    /\ wrote' = TRUE
    /\ n_colors' = IF script = "peaks" THEN NColors ELSE n_colors
    /\ colors' = IF script = "peaks" THEN generate_colors(NColors) ELSE colors
    /\ pc' = IF script = "peaks" THEN "wrap" ELSE "done"
    /\ UNCHANGED <<script, printed, dir_exists, files, served, response,
                   requested, frameVars>>

\* texas_peaks.py reads the file back and rewrites it inside its wrapper
WrapHtml ==
    /\ pc = "wrap"
    /\ html' = [html EXCEPT ![script] = [stage |-> "wrapped", of |-> height_col]]
    /\ pc' = "done"
    /\ UNCHANGED <<script, printed, dir_exists, files, served, fetchVars,
                   frameVars, colorVars>>

Absent == [stage |-> "absent", of |-> None]

Init ==
    /\ script = "peaks"
    /\ pc = "idle"
    /\ printed = {}
    /\ dir_exists = FALSE
    /\ files = {}
    /\ served \in Archives
    /\ response = <<>>
    /\ requested = FALSE
    /\ wrote = FALSE
    /\ loaded = NoFrame
    /\ gdf = NoFrame
    /\ population_col = None
    /\ area_col = None
    /\ height_col = None
    /\ html = [s \in Scripts |-> Absent]
    /\ n_colors = 0
    /\ colors = <<>>

Next ==
    \/ StartRun
    \/ AcquireCached
    \/ DownloadFails
    \/ DownloadBadZip
    \/ DownloadOk
    \/ ExtractMember
    \/ ExtractFails
    \/ ExtractDone
    \/ LoadOk
    \/ LoadFails
    \/ SelectColumns
    \/ DeriveMetric
    \/ NormalizeHeight
    \/ Render
    \/ WrapHtml

Spec == Init /\ [][Next]_vars

(***************************************************************************)
(* Properties.                                                             *)
(***************************************************************************)
Normalized == HeightName(script) \in Columns(gdf)
MetricCells == gdf.col[height_col].cells
HeightCells == gdf.col[HeightName(script)].cells

AllEqual(cells) == \A i, j \in DOMAIN cells : cells[i] = cells[j]

\* top and midpoint of the normalized range: [0, 1] for height; [0, 100]
\* for z_height, which the model holds squared
HeightTop(s) == IF s = "peaks" THEN Num(1) ELSE Num(ZScale * ZScale)
HeightMid(s) == IF s = "peaks" THEN Fin(1, 2) ELSE Num(FlatZ * FlatZ)

\* C1: after height normalization every record's height is a defined number
\* inside the normalized range ([0, 1] for height, [0, 100] for z_height), and
\* when all metric values are equal every height is the midpoint.
C1_HeightInRange ==
    Normalized =>
        \A i \in 1..gdf.n :
            /\ IsFin(HeightCells[i])
            /\ Leq(Num(0), HeightCells[i])
            /\ Leq(HeightCells[i], HeightTop(script))
            /\ AllEqual(MetricCells) => HeightCells[i] = HeightMid(script)

PopFound(g) == \E c \in {"POP", "POP100", "POP20"} : c \in Columns(g)

ExpectedPath(g) ==
    IF PopFound(g) /\ AreaIsValid(g, "ALAND") THEN "density"
    ELSE IF PopFound(g) THEN "population"
    ELSE "synthetic"

ActualPath ==
    CASE height_col = "density" -> "density"
      [] height_col = "simulated_height" -> "synthetic"
      [] OTHER -> "population"

\* C2: the path taken is density exactly when a population column and a
\* valid (numeric, positive-sum) area column are found, raw population exactly
\* when a population column but no valid area column is found, and the
\* fixed-seed synthetic values exactly when no population column is found;
\* a table without a population column does not make the run fail.
C2_FallbackChain ==
    /\ pc = "crashed" => PopFound(loaded)
    /\ pc = "normalize" =>
          /\ ActualPath = ExpectedPath(loaded)
          /\ ~PopFound(loaded) => MetricCells = SimulatedHeight(loaded).cells

\* C3: on the density path a record with area > 0 has density
\* population / (area / 1,000,000), a record with area 0 or missing has
\* density 0, and every density is a finite number.
C3_DensityValues ==
    (pc = "normalize" /\ height_col = "density") =>
        \A i \in 1..gdf.n :
            LET p == ToNumeric(loaded.col[population_col].cells[i])
                a == ToNumeric(loaded.col[area_col].cells[i])
                dens == gdf.col["density"].cells[i]
            IN  /\ IsFin(dens)
                /\ (IsFin(a) /\ a.n > 0 /\ IsFin(p)) =>
                       Mul(dens, a) = Mul(p, Num(Million))
                /\ (IsNaN(a) \/ a = Num(0)) => dens = Num(0)

\* reached: a density run over a record with area > 0 and population > 0 and
\* a record with area 0 and population > 0
C3_Witness ==
    /\ pc = "normalize"
    /\ height_col = "density"
    /\ \E i, j \in 1..gdf.n :
          /\ Lt(Num(0), loaded.col[area_col].cells[i])
          /\ Lt(Num(0), loaded.col[population_col].cells[i])
          /\ gdf.col["density"].cells[i] # Num(0)
          /\ loaded.col[area_col].cells[j] = Num(0)
          /\ Lt(Num(0), loaded.col[population_col].cells[j])

\* the run has ended in the acquisition or load stage with nothing later done
FailedClean ==
    /\ printed \cap Diagnostics # {}
    /\ ~wrote
    /\ gdf = NoFrame
    /\ population_col = None
    /\ area_col = None
    /\ height_col = None
    /\ colors = <<>>

\* C4: a step that prints a download, extraction or load diagnostic ends the
\* run at that stage with no metric, height or HTML output of that run, and
\* the only step after it is the start of a new run, which leaves the HTML
\* files as they were.
C4_FailureStopsRun ==
    [][ /\ (printed' \cap Diagnostics # {} /\ pc' # "crashed") =>
               (pc' = "failed" /\ FailedClean')
        /\ pc = "failed" => (pc' = "acquire" /\ html' = html) ]_vars

\* reached: visualize_texas.py skipped the download, failed to load the
\* shapefile and ended
C4_Witness ==
    /\ pc = "failed"
    /\ script = "visualize"
    /\ ~requested
    /\ "Error loading shapefile" \in printed

\* C5: on the raw-population path every record's metric is its population
\* value coerced to a number, text that is no number and missing values
\* becoming 0, and the run does not fail.
C5_RawPopulation ==
    (population_col # None /\ area_col = None
        /\ pc \in {"normalize", "crashed"}) =>
        /\ pc # "crashed"
        /\ \A i \in 1..gdf.n :
               MetricCells[i] = CoerceFill(loaded.col[population_col].cells[i])

\* C6: when the shapefile exists, acquisition issues no request, extracts
\* nothing and leaves the cache directory as it was.
C6_CachedIsNoOp ==
    [][ (pc = "acquire" /\ Shp \in files) =>
            /\ pc' = "load"
            /\ requested' = FALSE
            /\ response' = <<>>
            /\ files' = files
            /\ dir_exists' = dir_exists ]_vars

\* reached: a run that skipped the download after an earlier run completed
C6_Witness ==
    /\ pc = "load"
    /\ ~requested
    /\ Shp \in files
    /\ \E s \in Scripts : html[s] # Absent

\* C7 as stated: in both scripts equal metrics give equal heights and a
\* strictly lower metric gives a strictly lower height.
OrderPreserved ==
    \A i, j \in 1..gdf.n :
        /\ MetricCells[i] = MetricCells[j] => HeightCells[i] = HeightCells[j]
        /\ Lt(MetricCells[i], MetricCells[j]) =>
               Lt(HeightCells[i], HeightCells[j])

C7_OrderPreserved == Normalized => OrderPreserved

\* C7 amended: in visualize_texas.py equal metrics give equal z_height and
\* a strictly lower metric gives a strictly lower z_height.
C7_OrderPreservedBasic ==
    (script = "visualize" /\ Normalized) => OrderPreserved

\* reached: z_height of three records, the first two tied, the third lower
C7_Witness ==
    /\ script = "visualize"
    /\ Normalized
    /\ gdf.n = 3
    /\ MetricCells[1] = MetricCells[2]
    /\ Lt(MetricCells[3], MetricCells[1])
    /\ HeightCells[1] = HeightCells[2]
    /\ Lt(HeightCells[3], HeightCells[1])

\* C8: generate_colors(N) has exactly N entries, each three integers in
\* [0, 255].
C8_PaletteValid ==
    pc = "colored" =>
        /\ Len(colors) = n_colors
        /\ \A j \in 1..Len(colors) :
               /\ Len(colors[j]) = 3
               /\ \A c \in 1..3 : colors[j][c] \in 0..255

\* reached: the palette of 150 stops
C8_Witness ==
    /\ pc = "colored"
    /\ n_colors = NColors
    /\ Len(colors) = NColors

\* C9: whenever a run skips the download, every member of the archive is in
\* the cache directory.
C9_CacheHitIsComplete ==
    (pc = "load" /\ ~requested) => Range(served.members) \subseteq files

OtherScript(s) == IF s = "peaks" THEN "visualize" ELSE "peaks"

\* C10: the population column a script selected is the one the other script
\* selects from the same table.
C10_SamePopColumn ==
    pc = "derive" => population_col = SelectPopCol(OtherScript(script), loaded)

====
